---- MODULE Spec2Model ----
(***************************************************************************)
(* A model of cck_gpx.py: the structural matcher match_tags, the per-item  *)
(* strict extraction with its fallback link scan, the route description    *)
(* extraction and the writing of the GPX file.                             *)
(*                                                                         *)
(* Strings are sequences of tokens (a token is a word, or the whitespace   *)
(* token " ", or the percent-escape "%20"); a Python value that may be     *)
(* None is a set with at most one element (None == {}).                    *)
(***************************************************************************)
EXTENDS Integers, Sequences, FiniteSets, TLC

\* ------------------------------------------------------------------ bounds
MaxItems == 2       \* <li> elements of the route list in a multi-item page
MaxKids == 3        \* element children of a parent handed to match_tags alone
MaxSlots == 2       \* slots of a pattern handed to match_tags alone
MaxNameLen == 5     \* tokens of a full name handed to firstnameish alone

\* ------------------------------------------------------- optional values
None == {}
Some(x) == {x}
TheVal(o) == CHOOSE x \in o : TRUE

\* ------------------------------------------------------------- strings
WS == " "

RECURSIVE lstrip(_)
lstrip(s) == IF s # <<>> /\ Head(s) = WS THEN lstrip(Tail(s)) ELSE s

RECURSIVE rstrip(_)
rstrip(s) ==
    IF s # <<>> /\ s[Len(s)] = WS THEN rstrip(SubSeq(s, 1, Len(s) - 1)) ELSE s

strip(s) == lstrip(rstrip(s))

\* normalize-space(t) != '' : some token of t is not whitespace
NonBlank(t) == \E i \in 1..Len(t) : t[i] # WS

\* the tokens that contain the substring sub
Superstrings(sub) ==
    CASE sub = "Google Maps" -> {"Google Maps", "Open in Google Maps"}
      [] sub = "Call" -> {"Call", "Call client"}
      [] sub = "portion" -> {"portion", "portions"}
      [] OTHER -> {sub}

HasSubstr(t, sub) == \E i \in 1..Len(t) : t[i] \in Superstrings(sub)

\* urllib.parse.unquote on a token sequence: %20 decodes to a space
unquote(s) == [i \in 1..Len(s) |-> IF s[i] = "%20" THEN WS ELSE s[i]]

\* ------------------------------------------------------------- the DOM
\* An element: its tag, its own text (direct text children), its href
\* attribute (None when it has none) and its element children.
Element(tag, text, href, kids) ==
    [tag |-> tag, text |-> text, href |-> href, kids |-> kids]

TextNode == Element("#text", <<>>, None, <<>>)

iselement(x) == x.tag # "#text"

RECURSIVE text_content(_)
RECURSIVE kids_text(_)
kids_text(ks) ==
    IF ks = <<>> THEN <<>> ELSE text_content(Head(ks)) \o kids_text(Tail(ks))

text_content(node) == node.text \o kids_text(node.kids)

\* startnode.xpath("*|text()[normalize-space()!='']")
ChildNodes(startnode) ==
    (IF NonBlank(startnode.text) THEN <<TextNode>> ELSE <<>>) \o startnode.kids

\* A URL: scheme, site (host), dir (the path up to its last slash) and id
\* (the rest of the path, percent-encoded).
Url(scheme, site, dir, id) ==
    [scheme |-> scheme, site |-> site, dir |-> dir, id |-> id]

\* ------------------------------------------------------------ selectors
TagNames == {"div", "p", "ul", "li", "hr", "a", "button", "span", "main"}

SelMaps == "a[contains(text(),'Google Maps')]"
SelCall == "a[contains(text(),'Call')]"
SelSpacer == "div[not(node())]"
SelUnion == "div|*"

\* len(node.xpath('self::' + e))
XPathSelfCount(node, e) ==
    CASE e \in TagNames -> IF node.tag = e THEN 1 ELSE 0
      [] e = SelMaps ->
            IF node.tag = "a" /\ HasSubstr(node.text, "Google Maps") THEN 1 ELSE 0
      [] e = SelCall ->
            IF node.tag = "a" /\ HasSubstr(node.text, "Call") THEN 1 ELSE 0
      [] e = SelSpacer ->
            IF node.tag = "div" /\ node.kids = <<>> /\ node.text = <<>>
            THEN 1 ELSE 0
      [] e = SelUnion ->
            \* self::div|* is the union of self::div and child::*
            (IF node.tag = "div" THEN 1 ELSE 0) + Len(node.kids)
      [] OTHER -> 0

\* ------------------------------------------------------------ match_tags
\* A slot of a pattern: e, bind (None when the key is absent), opt.
Slot(e, bind, opt) == [e |-> e, bind |-> bind, opt |-> opt]

EmptyDict == <<>>
DictSet(d, k, v) == [x \in (DOMAIN d) \cup {k} |-> IF x = k THEN v ELSE d[x]]

\* What a call ends with: a dict, None, or an exception.
ReturnDict(d) == [kind |-> "dict", dict |-> d, exc |-> ""]
ReturnNone == [kind |-> "None", dict |-> EmptyDict, exc |-> ""]
Raise(exc) == [kind |-> "raise", dict |-> EmptyDict, exc |-> exc]

\* The 1:1 loop of match_tags: "for tagd in pattern: node = nodelist.pop(0)".
RECURSIVE MatchLoop(_, _, _)
MatchLoop(pattern, nodelist, result) ==
    IF pattern = <<>> THEN ReturnDict(result)
    ELSE IF nodelist = <<>> THEN Raise("IndexError")
    ELSE LET tagd == Head(pattern)
             node == Head(nodelist)
             matches == XPathSelfCount(node, tagd.e)
         IN  IF matches > 1 THEN Raise("ValueError")
             ELSE IF matches = 0 THEN ReturnNone
             ELSE MatchLoop(Tail(pattern), Tail(nodelist),
                      IF tagd.bind # None
                      THEN DictSet(result, TheVal(tagd.bind), node)
                      ELSE result)

IsMandatory(tagd) == ~tagd.opt

match_tags(startnode, pattern) ==
    LET nodelist == ChildNodes(startnode)
        pattern_mandatory == SelectSeq(pattern, IsMandatory)
        nopt == Len(pattern) - Len(pattern_mandatory)
    IN  IF \E i \in 1..Len(nodelist) : ~iselement(nodelist[i]) THEN ReturnNone
        ELSE IF nopt > 1 THEN Raise("ValueError")
        ELSE IF nopt = 1 /\ Len(pattern) # Len(nodelist) + 1
                         /\ Len(pattern) # Len(nodelist) THEN ReturnNone
        ELSE MatchLoop(IF nopt = 1 /\ Len(pattern) = Len(nodelist) + 1
                       THEN pattern_mandatory ELSE pattern,
                       nodelist, EmptyDict)

\* ------------------------------------------------- location codes (olc)
FULL1 == "8FVC2222+22"
FULL2 == "8FVC9999+99"
SHORT == "2222+22"
BADID == "ChIJplace"

\* olc.isValid, olc.isFull: the library's verdict on the sample codes.  A
\* string with whitespace in it, or the empty string, is no valid code.
isValid(code) == Len(code) = 1 /\ code[1] \in {FULL1, FULL2, SHORT}
isFull(code) == Len(code) = 1 /\ code[1] \in {FULL1, FULL2}

\* olc.decode(code).latlng(): the centre of the code's cell, in units of
\* 10^-7 degree.  decode raises ValueError for a code that is not full.
latlng(code) ==
    IF code[1] = FULL1 THEN [lat |-> 470000625, lng |-> 80000625]
    ELSE [lat |-> 473684375, lng |-> 83684375]

\* "if placeid": None and the empty string are false
Truthy(o) == o # None /\ TheVal(o) # <<>>

\* ----------------------------------------- place_id_from_google_maps_url
PlaceDir == "/maps/place/"
SearchDir == "/maps/search/"

\* The path is unquoted and right-stripped, then matched against
\* '/maps/place/(.*)$'; the host is ignored.
place_id_from_google_maps_url(url) ==
    IF url.dir = PlaceDir THEN Some(rstrip(unquote(url.id))) ELSE None

\* contains(@href,'google.com/maps')
GoogleSite == "www.google.com"
HrefIsGoogleMaps(url) ==
    url.site = GoogleSite /\ url.dir \in {PlaceDir, SearchDir}

\* ------------------------------------------------------------ firstnameish
IsWord(tok) == tok # WS
split(s) == SelectSeq(s, IsWord)

RECURSIVE join(_)
join(names) ==
    IF names = <<>> THEN <<>>
    ELSE IF Len(names) = 1 THEN names
    ELSE <<Head(names), WS>> \o join(Tail(names))

\* re.match('[A-Za-z]\.?$', name)
LooksLikeInitial(name) == name \in {"A", "B", "F", "A.", "B.", "F."}

\* name[0]
FirstChar(name) ==
    CASE name \in {"Alex", "A", "A."} -> "A"
      [] name \in {"B", "B.", "Bloggs"} -> "B"
      [] name \in {"F", "F."} -> "F"
      [] name = "Smith" -> "S"
      [] OTHER -> "?"

\* Lines 112-121 without the break at a name that is no initial.
RECURSIVE GatherAllNames(_, _, _)
GatherAllNames(names, index, namelist) ==
    IF index >= 2 THEN namelist
    ELSE IF index = Len(names) - 1
         THEN Append(namelist, FirstChar(names[index + 1]) \o ".")
         ELSE GatherAllNames(names, index + 1,
                             Append(namelist, names[index + 1]))

\* Lines 112-121, "for index in range(2)" from index on (index counts from
\* 0 as in the code), with the namelist gathered so far.
RECURSIVE GatherNames(_, _, _)
GatherNames(names, index, namelist) ==
    IF index >= 2 THEN namelist
    ELSE IF index = Len(names) - 1
         THEN Append(namelist, FirstChar(names[index + 1]) \o ".")
         ELSE IF ~LooksLikeInitial(names[index + 1])
              THEN Append(namelist, names[index + 1])
              ELSE GatherNames(names, index + 1,
                               Append(namelist, names[index + 1]))

firstnameish(fullname) ==
    LET names == split(fullname)
    IN  IF Len(names) = 0 THEN None
        ELSE IF Len(names) = 1 THEN Some(<<names[1]>>)
        ELSE Some(join(GatherNames(names, 0, <<>>)))

\* ------------------------------------------------- the script's patterns
PatItem == << Slot("div", Some("div1"), FALSE) >>

PatMain == << Slot("div", Some("name_olc_div"), FALSE),
              Slot("p", Some("addr_p"), FALSE),
              Slot("div", Some("portions_div"), FALSE),
              Slot("p", Some("insns_p"), FALSE),
              Slot("p", Some("allergies_p"), FALSE),
              Slot("p", Some("nothome_p"), TRUE),
              Slot("div", Some("links_div"), FALSE) >>

PatName == << Slot("p", Some("fullname_p"), FALSE),
              Slot("p", Some("olc_p"), FALSE) >>

PatLinks == << Slot(SelMaps, Some("maplink_a"), FALSE),
               Slot(SelCall, Some("tellink_a"), TRUE),
               Slot(SelSpacer, None, FALSE),
               Slot("button", None, FALSE) >>

PatDesc == << Slot("div", Some("route_reset_div"), FALSE),
              Slot("div", Some("dish_div"), TRUE),
              Slot("ul", None, FALSE),
              Slot("div", None, FALSE) >>

ScriptPatterns ==
    [item |-> PatItem, main |-> PatMain, name |-> PatName,
     links |-> PatLinks, desc |-> PatDesc]

\* ------------------------------------------ strict extraction of an item
\* What the body of the try block ends with: exc is "" when it ran to its
\* end, and then ptname and placeid are the values it assigned; otherwise
\* exc is the class of the exception raised, why tells which check raised
\* it and cited holds the values its message cites.
StrictOk(ptname, placeid) ==
    [exc |-> "", why |-> "", cited |-> <<>>,
     ptname |-> ptname, placeid |-> placeid]
StrictFailCiting(exc, why, cited) ==
    [exc |-> exc, why |-> why, cited |-> cited,
     ptname |-> None, placeid |-> None]
StrictFail(exc, why) == StrictFailCiting(exc, why, <<>>)

\* Line 339: the text code against the place ID of the map URL
CrossCheckOk(fields_placeid, placeid_from_url) ==
    Some(fields_placeid) = placeid_from_url

\* mutant: the strict path wants a full-length code too
StrictCodeOkFull(code) == isValid(code) /\ isFull(code)

\* Line 345: the strict path's check of the code
StrictCodeOk(code) == isValid(code)

\* The exception of evaluating r[key] for a match_tags result r ("" if none)
SubscriptExc(r, key) ==
    IF r.kind = "None" THEN "TypeError"
    ELSE IF key \notin DOMAIN r.dict THEN "KeyError"
    ELSE ""

\* urllib.parse.urlparse(tellink).scheme and the checks on it (lines
\* 358-366); a link without href parses to an empty scheme of bytes.
TelLinkOk(tellink) ==
    /\ tellink # None
    /\ \/ TheVal(tellink).scheme = "tel"
       \/ TheVal(tellink).scheme = "" /\ TheVal(tellink).dir = "tel:"

\* Lines 329-367: the links block, the cross-check and the validation.
StrictLinks(l2, fullname, fields_placeid, pats) ==
    LET l3 == match_tags(l2.dict["links_div"], pats.links)
    IN  IF l3.kind = "raise" THEN StrictFail(l3.exc, "pattern")
        ELSE IF SubscriptExc(l3, "maplink_a") # ""
             THEN StrictFail(SubscriptExc(l3, "maplink_a"), "shape")
        ELSE LET mapurl == l3.dict["maplink_a"].href
             IN  IF mapurl = None THEN StrictFail("TypeError", "nohref")
                 ELSE LET placeid_from_url ==
                              place_id_from_google_maps_url(TheVal(mapurl))
                      IN  IF ~CrossCheckOk(fields_placeid, placeid_from_url)
                          THEN StrictFailCiting("ValueError", "mismatch",
                                   <<Some(fields_placeid), placeid_from_url>>)
                          ELSE IF ~StrictCodeOk(fields_placeid)
                          THEN StrictFailCiting("ValueError", "invalid",
                                                <<Some(fields_placeid)>>)
                          ELSE IF "tellink_a" \in DOMAIN l3.dict
                                  /\ ~TelLinkOk(l3.dict["tellink_a"].href)
                          THEN StrictFail("ValueError", "tel")
                          ELSE StrictOk(firstnameish(fullname),
                                        Some(fields_placeid))

\* Lines 293-328: the name/code block and the sanity check of the portions.
StrictFields(l2, pats) ==
    IF SubscriptExc(l2, "name_olc_div") # ""
    THEN StrictFail(SubscriptExc(l2, "name_olc_div"), "shape")
    ELSE LET l3 == match_tags(l2.dict["name_olc_div"], pats.name)
         IN  IF l3.kind = "raise" THEN StrictFail(l3.exc, "pattern")
             ELSE IF SubscriptExc(l3, "fullname_p") # ""
                  THEN StrictFail(SubscriptExc(l3, "fullname_p"), "shape")
             ELSE IF SubscriptExc(l3, "olc_p") # ""
                  THEN StrictFail(SubscriptExc(l3, "olc_p"), "shape")
             ELSE IF \E k \in {"addr_p", "portions_div", "insns_p",
                               "allergies_p", "links_div"} :
                         k \notin DOMAIN l2.dict
                  THEN StrictFail("KeyError", "shape")
             ELSE IF ~HasSubstr(text_content(l2.dict["portions_div"]), "portion")
                  THEN StrictFail("ValueError", "portion")
             ELSE StrictLinks(l2,
                              strip(text_content(l3.dict["fullname_p"])),
                              strip(text_content(l3.dict["olc_p"])),
                              pats)

\* Lines 275-367: the body of the try block for one <li>.
StrictExtract(listitem, pats) ==
    LET l1 == match_tags(listitem, pats.item)
    IN  IF l1.kind = "raise" THEN StrictFail(l1.exc, "pattern")
        ELSE IF SubscriptExc(l1, "div1") # ""
             THEN StrictFail(SubscriptExc(l1, "div1"), "shape")
        ELSE LET l2 == match_tags(l1.dict["div1"], pats.main)
             IN  IF l2.kind = "raise" THEN StrictFail(l2.exc, "pattern")
                 ELSE StrictFields(l2, pats)

\* ------------------------------------------------------ the fallback scan
RECURSIVE Descendants(_)
RECURSIVE DescendantsOfAll(_)
DescendantsOfAll(ks) ==
    IF ks = <<>> THEN <<>>
    ELSE <<Head(ks)>> \o Descendants(Head(ks)) \o DescendantsOfAll(Tail(ks))

\* the element descendants of a node, in document order
Descendants(node) == DescendantsOfAll(node.kids)

IsGoogleMapsLink(node) ==
    node.tag = "a" /\ node.href # None /\ HrefIsGoogleMaps(TheVal(node.href))

\* listitem.xpath(".//a[contains(@href,'google.com/maps')]")
GoogleMapsLinks(listitem) == SelectSeq(Descendants(listitem), IsGoogleMapsLink)

\* Lines 376-384: the place ID of the only Google Maps link under the
\* <li>; failed is TRUE when there is not exactly one such link.
FallbackScan(listitem) ==
    LET links == GoogleMapsLinks(listitem)
    IN  IF Len(links) = 1
        THEN [failed |-> FALSE,
              placeid |-> place_id_from_google_maps_url(TheVal(links[1].href))]
        ELSE [failed |-> TRUE, placeid |-> None]

\* "Delivery no %d" % (index+1)
DeliveryName(index) == <<"Delivery", WS, "no", WS, ToString(index + 1)>>

\* mutant: the per-item handler does not name ValueError
ItemCaughtNoValueError == {"KeyError", "TypeError"}

\* The exception classes the per-item handler names (line 368)
ItemCaught == {"ValueError", "KeyError", "TypeError"}

\* The exception classes the handler of the description names (line 425)
DescCaught == {"ValueError", "KeyError"}

\* --------------------------------------------------- sample documents
P(text) == Element("p", text, None, <<>>)
Div(kids) == Element("div", <<>>, None, kids)
A(text, href) == Element("a", text, href, <<>>)
Spacer == Element("div", <<>>, None, <<>>)
Button(text) == Element("button", text, None, <<>>)
Hr == Element("hr", <<>>, None, <<>>)

MapsUrl(site, dir, id) == Url("https", site, dir, id)

\* The variations of a route point.  li, d1, nm, portion, links and
\* fullname vary the structure; textcode, urlid, dir, site and extra vary
\* the place identifiers and the links.
LiKinds == {"div", "empty", "div_hr", "text", "p"}
D1Kinds == {"full", "nonothome", "short", "wrongtag"}
NmKinds == {"pp", "p", "ppp"}
LinksKinds == {"maps_call", "maps", "nospacer", "badtel", "teldigits", "nohref"}
FullNames == { <<WS, "Alex", WS>>, <<"A", WS, "B", WS, "Smith">>,
               <<"F.", WS, "Bloggs">>, <<WS>> }
TextCodes == { <<WS, FULL1, WS>>, <<SHORT>>, <<BADID>> }
UrlIds == { <<FULL1, "%20">>, <<FULL2>>, <<SHORT>>, <<BADID>> }
Dirs == {PlaceDir, SearchDir}
Sites == {GoogleSite, "maps.example.org"}
ExtraLinks == {None, Some(<<FULL1>>), Some(<<FULL2>>)}

ItemParams ==
    [li : LiKinds, d1 : D1Kinds, nm : NmKinds, portion : BOOLEAN,
     links : LinksKinds, fullname : FullNames, textcode : TextCodes,
     urlid : UrlIds, dir : Dirs, site : Sites, extra : ExtraLinks]

NameOlcDiv(q) ==
    Div(CASE q.nm = "pp" -> <<P(q.fullname), P(q.textcode)>>
          [] q.nm = "p" -> <<P(q.fullname)>>
          [] OTHER -> <<P(q.fullname), P(q.textcode), P(<<"(new)">>)>>)

\* the address paragraph; an extra Google Maps link, if any, sits in it
AddrP(q) ==
    Element("p", <<"12", WS, "Some", WS, "Road">>, None,
            IF q.extra = None THEN <<>>
            ELSE <<A(<<"map">>, Some(MapsUrl(GoogleSite, PlaceDir, TheVal(q.extra))))>>)

PortionsDiv(q) ==
    Div(<<Element("span", <<"2">>, None, <<>>),
          P(IF q.portion THEN <<"portions">> ELSE <<"servings">>)>>)

MapLinkA(q) ==
    A(<<"Open in Google Maps">>,
      IF q.links = "nohref" THEN None
      ELSE Some(MapsUrl(q.site, q.dir, q.urlid)))

TelUrl == Url("tel", "", "", <<"01223", "%20", "555123">>)
TelDigitsUrl == Url("", "", "tel:", <<"01223555123">>)
NotTelUrl == Url("https", "example.org", "/call/", <<"01223555123">>)

LinksDiv(q) ==
    Div(CASE q.links = "maps_call" ->
                <<MapLinkA(q), A(<<"Call">>, Some(TelUrl)), Spacer, Button(<<"Done">>)>>
          [] q.links = "teldigits" ->
                <<MapLinkA(q), A(<<"Call">>, Some(TelDigitsUrl)), Spacer, Button(<<"Done">>)>>
          [] q.links = "badtel" ->
                <<MapLinkA(q), A(<<"Call">>, Some(NotTelUrl)), Spacer, Button(<<"Done">>)>>
          [] q.links = "nospacer" -> <<MapLinkA(q), Button(<<"Done">>)>>
          [] OTHER -> <<MapLinkA(q), Spacer, Button(<<"Done">>)>>)

Div1(q) ==
    Div(CASE q.d1 = "full" ->
                <<NameOlcDiv(q), AddrP(q), PortionsDiv(q), P(<<"ring", WS, "bell">>),
                  P(<<"nuts">>), P(<<"leave", WS, "with", WS, "neighbour">>),
                  LinksDiv(q)>>
          [] q.d1 = "nonothome" ->
                <<NameOlcDiv(q), AddrP(q), PortionsDiv(q), P(<<"ring", WS, "bell">>),
                  P(<<"nuts">>), LinksDiv(q)>>
          [] q.d1 = "short" ->
                <<NameOlcDiv(q), AddrP(q), PortionsDiv(q), P(<<"ring", WS, "bell">>),
                  LinksDiv(q)>>
          [] OTHER ->
                <<NameOlcDiv(q), AddrP(q), PortionsDiv(q), Div(<<>>),
                  P(<<"nuts">>), P(<<"leave", WS, "with", WS, "neighbour">>),
                  LinksDiv(q)>>)

MkItem(q) ==
    CASE q.li = "div" -> Element("li", <<WS>>, None, <<Div1(q)>>)
      [] q.li = "empty" -> Element("li", <<>>, None, <<>>)
      [] q.li = "div_hr" -> Element("li", <<>>, None, <<Div1(q), Hr>>)
      [] q.li = "text" -> Element("li", <<"Stop", WS>>, None, <<Div1(q)>>)
      [] OTHER -> Element("li", <<>>, None, <<P(<<"Loading">>)>>)

BaseParams ==
    [li |-> "div", d1 |-> "full", nm |-> "pp", portion |-> TRUE,
     links |-> "maps_call", fullname |-> <<WS, "Alex", WS>>,
     textcode |-> <<WS, FULL1, WS>>, urlid |-> <<FULL1, "%20">>,
     dir |-> PlaceDir, site |-> GoogleSite, extra |-> None]

StructFields == {"li", "d1", "nm", "portion", "links", "fullname"}

\* the items that differ from the well-formed one in at most one field of
\* the structure, with every combination of place identifiers and links
OneItemParams ==
    { q \in ItemParams :
        Cardinality({f \in StructFields : q[f] # BaseParams[f]}) <= 1 }

\* the route points of the pages of more than one item
RepParams ==
    { BaseParams,
      [BaseParams EXCEPT !.fullname = <<"F.", WS, "Bloggs">>,
                         !.textcode = <<SHORT>>, !.urlid = <<SHORT>>],
      [BaseParams EXCEPT !.urlid = <<FULL2>>, !.d1 = "nonothome"],
      [BaseParams EXCEPT !.li = "empty"],
      [BaseParams EXCEPT !.li = "p"],
      [BaseParams EXCEPT !.nm = "ppp", !.textcode = <<BADID>>,
                         !.urlid = <<BADID>>] }

RECURSIVE SeqsUpTo(_, _)
\* the sequences over S of length at most n
SeqsUpTo(S, n) ==
    IF n = 0 THEN {<<>>}
    ELSE LET shorter == SeqsUpTo(S, n - 1)
         IN  shorter \cup { Append(t, x) : t \in shorter, x \in S }

ItemLists ==
    SeqsUpTo({MkItem(q) : q \in RepParams}, MaxItems)
        \cup { <<MkItem(q)>> : q \in OneItemParams }

\* <ul>: each <li> is followed by an <hr>
RECURSIVE WithRules(_)
WithRules(items) ==
    IF items = <<>> THEN <<>> ELSE <<Head(items), Hr>> \o WithRules(Tail(items))

Ul(items) == Element("ul", <<>>, None, WithRules(items))

Layouts == {"dish", "plain", "one_div", "short", "stray_text", "two_desc",
            "blank_desc", "no_ul", "no_main"}

DescText == <<WS, "Deliveries", WS, WS, "for", WS, "Demo", WS>>

RouteResetDiv(layout) ==
    Div(CASE layout = "two_desc" ->
                <<Element("div", DescText, None, <<>>), Div(<<>>),
                  Button(<<"Reset">>)>>
          [] layout = "blank_desc" ->
                <<Element("div", <<WS>>, None, <<>>), Button(<<"Reset">>)>>
          [] OTHER ->
                <<Element("div", DescText, None, <<>>), Button(<<"Reset">>)>>)

Back == Div(<<A(<<"Back">>, Some(MapsUrl(GoogleSite, PlaceDir, <<BADID>>)))>>)

Content(layout, items) ==
    CASE layout = "dish" ->
            Div(<<RouteResetDiv(layout), Div(<<P(<<"soup">>)>>), Ul(items), Back>>)
      [] layout = "short" -> Div(<<RouteResetDiv(layout), Ul(items)>>)
      [] layout = "stray_text" ->
            Element("div", <<"Offline">>, None,
                    <<RouteResetDiv(layout), Ul(items), Back>>)
      [] layout = "no_ul" -> Div(<<RouteResetDiv(layout), Back>>)
      [] OTHER -> Div(<<RouteResetDiv(layout), Ul(items), Back>>)

Header == Div(<<Element("span", <<"CCK", WS, "Deliveries">>, None, <<>>)>>)

Page(layout, items) ==
    Element("body", <<>>, None,
            CASE layout = "no_main" -> <<Header, Content(layout, items)>>
              [] layout = "one_div" ->
                    <<Element("main", <<>>, None, <<Content(layout, items)>>)>>
              [] OTHER ->
                    <<Element("main", <<>>, None,
                              <<Header, Content(layout, items)>>)>>)

\* ---------------------------------------------------------- the script
VARIABLES
    argc,               \* len(sys.argv)
    tree,               \* the parsed page
    patterns,           \* the pattern literals of the script
    pc,                 \* where the script is
    ulistitems,         \* the <li> children of the route list
    index,              \* how many items the loop has been through
    ptname,             \* the name of the last item's point (None: unset)
    placeid,            \* the place ID of the last item (None: unset or None)
    routepoints,        \* the points understood so far
    route_description,  \* None, or the description found
    stderr,             \* the diagnostics printed, in order
    gpxfile,            \* None, or the GPX document written
    exit,               \* "running", "status N", or the uncaught exception
    mt_node, mt_pattern, mt_result, \* a call of match_tags on its own
    fn_fullname, fn_result          \* a call of firstnameish on its own

vars == <<argc, tree, patterns, pc, ulistitems, index, ptname, placeid,
          routepoints, route_description, stderr, gpxfile, exit,
          mt_node, mt_pattern, mt_result, fn_fullname, fn_result>>

mt_vars == <<mt_node, mt_pattern, mt_result>>
fn_vars == <<fn_fullname, fn_result>>

\* A line of diagnostics: what it says, the position it names (0: none)
\* and the values it cites.
DiagCiting(msg, n, cited) == [msg |-> msg, n |-> n, cited |-> cited]
Diag(msg, n) == DiagCiting(msg, n, <<>>)

NotCalled == [kind |-> "not called", dict |-> EmptyDict, exc |-> ""]

\* firstnameish before its call, and what it returned
FnNotCalled == [kind |-> "not called", value |-> None]
FnReturn(v) == [kind |-> "return", value |-> v]
FnIdle == fn_fullname = <<>> /\ fn_result = FnNotCalled

Inputs ==
    { [argc |-> a, tree |-> Page(l, items)] :
          a \in 1..3, l \in Layouts,
          items \in SeqsUpTo({MkItem(q) : q \in RepParams}, MaxItems) }
    \cup { [argc |-> 3, tree |-> Page("plain", <<MkItem(q)>>)] :
               q \in OneItemParams }

InitScript ==
    /\ pc = "args"
    /\ ulistitems = <<>>
    /\ index = 0
    /\ ptname = None
    /\ placeid = None
    /\ routepoints = <<>>
    /\ route_description = None
    /\ stderr = <<>>
    /\ gpxfile = None
    /\ exit = "running"

Init ==
    /\ \E in \in Inputs : argc = in.argc /\ tree = in.tree
    /\ patterns = ScriptPatterns
    /\ InitScript
    /\ mt_node = TextNode
    /\ mt_pattern = <<>>
    /\ mt_result = NotCalled
    /\ FnIdle

\* The script ends: by sys.exit, by running off its end, or by an exception
\* nothing catches (the interpreter prints the traceback; its status is 1).
Ends(how) == pc' = "done" /\ exit' = how

\* Lines 197-199
CheckArgs ==
    /\ pc = "args"
    /\ IF argc < 2
       THEN /\ stderr' = Append(stderr, Diag("usage", 0))
            /\ Ends("status 2")
       ELSE /\ pc' = "parse"
            /\ UNCHANGED <<stderr, exit>>
    /\ UNCHANGED <<argc, tree, patterns, ulistitems, index, ptname, placeid,
                   routepoints, route_description, gpxfile, mt_vars, fn_vars>>

IsTag(node, tag) == node.tag = tag
IsMain(node) == IsTag(node, "main")
IsUl(node) == IsTag(node, "ul")
IsLi(node) == IsTag(node, "li")
IsDiv(node) == IsTag(node, "div")

\* tree.xpath('//main')
Mains == SelectSeq(Descendants(tree), IsMain)

\* Lines 204-267
Parse ==
    /\ pc = "parse"
    /\ IF Len(Mains) # 1
       THEN /\ Ends("ValueError")
            /\ UNCHANGED <<stderr, ulistitems>>
       ELSE LET uls == SelectSeq(Descendants(Mains[1]), IsUl)
            IN  IF Len(uls) # 1
                THEN /\ stderr' = Append(stderr, Diag("no route list", 0))
                     /\ Ends("ValueError")
                     /\ UNCHANGED ulistitems
                ELSE /\ ulistitems' = SelectSeq(uls[1].kids, IsLi)
                     /\ stderr' = IF Len(ulistitems') = 0
                                  THEN Append(stderr, Diag("no route points in list", 0))
                                  ELSE stderr
                     /\ pc' = "loop"
                     /\ UNCHANGED exit
    /\ UNCHANGED <<argc, tree, patterns, index, ptname, placeid, routepoints,
                   route_description, gpxfile, mt_vars, fn_vars>>

\* olc.decode raises ValueError for a code that is not full
DecodeRaises(id) == ~isFull(TheVal(id))

\* Line 387
IsUsablePlaceId(id) == Truthy(id) /\ isValid(TheVal(id)) /\ isFull(TheVal(id))

\* mutant: latitude and longitude change places
WaypointSwapped(name, id) ==
    [name |-> name, lat |-> latlng(TheVal(id)).lng, lng |-> latlng(TheVal(id)).lat]

\* Lines 390-395
Waypoint(name, id) ==
    [name |-> name, lat |-> latlng(TheVal(id)).lat, lng |-> latlng(TheVal(id)).lng]

\* mutant: after a failed cross-check the handler keeps the code of the text
FallbackKeepsTextCode(listitem, i, strict) ==
    LET scan == FallbackScan(listitem)
    IN  [ptname |-> Some(DeliveryName(i)),
         placeid |-> IF strict.why = "mismatch" THEN strict.cited[1]
                     ELSE scan.placeid,
         printed |-> <<DiagCiting(strict.why, 0, strict.cited),
                       Diag("falling back", i + 1)>>
                     \o (IF scan.failed
                         THEN <<Diag("fallback failed", i + 1)>> ELSE <<>>)]

\* Lines 368-384: what the handler leaves in ptname and placeid, and prints
Fallback(listitem, i, strict) ==
    LET scan == FallbackScan(listitem)
    IN  [ptname |-> Some(DeliveryName(i)),
         placeid |-> scan.placeid,
         printed |-> <<DiagCiting(strict.why, 0, strict.cited),
                       Diag("falling back", i + 1)>>
                     \o (IF scan.failed
                         THEN <<Diag("fallback failed", i + 1)>> ELSE <<>>)]

\* mutant: the point is put at the head of the list
AddPointFirst(points, point) == <<point>> \o points

\* Line 391: routepoints.append
AddPoint(points, point) == Append(points, point)

\* Lines 268-398: one turn of the loop over the items
ProcessItem ==
    /\ pc = "loop"
    /\ index < Len(ulistitems)
    /\ LET listitem == ulistitems[index + 1]
           strict == StrictExtract(listitem, patterns)
       IN  IF strict.exc # "" /\ strict.exc \notin ItemCaught
           THEN /\ Ends(strict.exc)
                /\ UNCHANGED <<index, ptname, placeid, routepoints, stderr>>
           ELSE LET got == IF strict.exc = ""
                           THEN [ptname |-> strict.ptname,
                                 placeid |-> strict.placeid,
                                 printed |-> <<>>]
                           ELSE Fallback(listitem, index, strict)
                IN  /\ ptname' = got.ptname
                    /\ placeid' = got.placeid
                    /\ IF IsUsablePlaceId(got.placeid)
                       THEN IF DecodeRaises(got.placeid)
                            THEN /\ stderr' = stderr \o got.printed
                                 /\ Ends("ValueError")
                                 /\ UNCHANGED <<index, routepoints>>
                            ELSE /\ routepoints' =
                                      AddPoint(routepoints,
                                               Waypoint(got.ptname, got.placeid))
                                 /\ stderr' = stderr \o got.printed
                                 /\ index' = index + 1
                                 /\ UNCHANGED <<pc, exit>>
                       ELSE /\ routepoints' = routepoints
                            /\ stderr' = stderr \o got.printed
                                 \o <<DiagCiting("not a full-length plus code",
                                                 index + 1, <<got.placeid>>)>>
                            /\ index' = index + 1
                            /\ UNCHANGED <<pc, exit>>
    /\ UNCHANGED <<argc, tree, patterns, ulistitems, route_description,
                   gpxfile, mt_vars, fn_vars>>

\* Lines 400-405
AfterLoop ==
    /\ pc = "loop"
    /\ index = Len(ulistitems)
    /\ LET incomplete == IF Len(routepoints) # Len(ulistitems)
                         THEN <<Diag("route incomplete", Len(routepoints))>>
                         ELSE <<>>
       IN  IF Len(routepoints) = 0
           THEN /\ stderr' = stderr \o incomplete \o <<Diag("no route points", 0)>>
                /\ Ends("status 1")
           ELSE /\ stderr' = stderr \o incomplete
                /\ pc' = "desc"
                /\ UNCHANGED exit
    /\ UNCHANGED <<argc, tree, patterns, ulistitems, index, ptname, placeid,
                   routepoints, route_description, gpxfile, mt_vars, fn_vars>>

\* Lines 413-423: the body of the try block; exc is "" when it ran to its
\* end, and then text is the description.
DescExtract(main, pats) ==
    LET divs == SelectSeq(main.kids, IsDiv)
    IN  IF Len(divs) # 2 THEN [exc |-> "ValueError", text |-> <<>>]
        ELSE LET l2 == match_tags(divs[2], pats.desc)
             IN  IF l2.kind = "raise" THEN [exc |-> l2.exc, text |-> <<>>]
                 ELSE IF SubscriptExc(l2, "route_reset_div") # ""
                 THEN [exc |-> SubscriptExc(l2, "route_reset_div"), text |-> <<>>]
                 ELSE LET inner == SelectSeq(l2.dict["route_reset_div"].kids, IsDiv)
                      IN  IF Len(inner) # 1
                          THEN [exc |-> "ValueError", text |-> <<>>]
                          ELSE [exc |-> "",
                                text |-> join(split(text_content(inner[1])))]

\* Lines 410-427
ExtractDescription ==
    /\ pc = "desc"
    /\ LET d == DescExtract(Mains[1], patterns)
       IN  IF d.exc = ""
           THEN /\ route_description' = Some(d.text)
                /\ pc' = "write"
                /\ UNCHANGED <<stderr, exit>>
           ELSE IF d.exc \in DescCaught
           THEN /\ route_description' = None
                /\ stderr' = Append(stderr, Diag("no route description", 0))
                /\ pc' = "write"
                /\ UNCHANGED exit
           ELSE /\ Ends(d.exc)
                /\ UNCHANGED <<route_description, stderr>>
    /\ UNCHANGED <<argc, tree, patterns, ulistitems, index, ptname, placeid,
                   routepoints, gpxfile, mt_vars, fn_vars>>

\* Lines 446-454: one GPXWaypoint per point, in the order of routepoints
GpxWaypoints(points) ==
    [i \in 1..Len(points) |->
        [latitude |-> points[i].lat, longitude |-> points[i].lng,
         name |-> points[i].name]]

\* Lines 431-459
WriteGpx ==
    /\ pc = "write"
    /\ IF argc < 3
       THEN /\ Ends("IndexError")
            /\ UNCHANGED gpxfile
       ELSE /\ gpxfile' = Some([description |->
                                    IF Truthy(route_description)
                                    THEN route_description ELSE None,
                                waypoints |-> GpxWaypoints(routepoints)])
            /\ Ends("status 0")
    /\ UNCHANGED <<argc, tree, patterns, ulistitems, index, ptname, placeid,
                   routepoints, route_description, stderr, mt_vars, fn_vars>>

Next ==
    \/ CheckArgs
    \/ Parse
    \/ ProcessItem
    \/ AfterLoop
    \/ ExtractDescription
    \/ WriteGpx

Spec == Init /\ [][Next]_vars

\* ------------------------------------------------ match_tags on its own
\* The children a parent may have: an empty <div>, an empty <p>, a <div>
\* with a child of its own.
KidAlphabet == { Div(<<>>), P(<<>>), Div(<<P(<<>>)>>) }

MatchParents ==
    { Element("div", t, None, ks) :
          t \in {<<>>, <<WS>>, <<"note">>}, ks \in SeqsUpTo(KidAlphabet, MaxKids) }

SlotAlphabet ==
    { Slot("div", Some("a"), FALSE), Slot("p", None, FALSE),
      Slot("p", Some("b"), TRUE), Slot("div", None, TRUE),
      Slot(SelUnion, Some("u"), FALSE) }

MatchPatterns == SeqsUpTo(SlotAlphabet, MaxSlots)

InitMatch ==
    /\ mt_node \in MatchParents
    /\ mt_pattern \in MatchPatterns
    /\ mt_result = NotCalled
    /\ FnIdle
    /\ argc = 3
    /\ tree = Element("body", <<>>, None, <<>>)
    /\ patterns = ScriptPatterns
    /\ InitScript

CallMatchTags ==
    /\ mt_result = NotCalled
    /\ mt_result' = match_tags(mt_node, mt_pattern)
    /\ UNCHANGED <<argc, tree, patterns, pc, ulistitems, index, ptname,
                   placeid, routepoints, route_description, stderr, gpxfile,
                   exit, mt_node, mt_pattern, fn_vars>>

NextMatch == CallMatchTags

SpecMatch == InitMatch /\ [][NextMatch]_vars

\* ---------------------------------------------- firstnameish on its own
\* The tokens of a full name: whitespace, initials with and without a
\* period, and longer names.
NameAlphabet == {WS, "A", "F.", "Alex", "Smith"}

NameInputs == SeqsUpTo(NameAlphabet, MaxNameLen)

InitName ==
    /\ fn_fullname \in NameInputs
    /\ fn_result = FnNotCalled
    /\ mt_node = TextNode
    /\ mt_pattern = <<>>
    /\ mt_result = NotCalled
    /\ argc = 3
    /\ tree = Element("body", <<>>, None, <<>>)
    /\ patterns = ScriptPatterns
    /\ InitScript

CallFirstnameish ==
    /\ fn_result = FnNotCalled
    /\ fn_result' = FnReturn(firstnameish(fn_fullname))
    /\ UNCHANGED <<argc, tree, patterns, pc, ulistitems, index, ptname,
                   placeid, routepoints, route_description, stderr, gpxfile,
                   exit, mt_vars, fn_fullname>>

NextName == CallFirstnameish

SpecName == InitName /\ [][NextName]_vars

\* --------------------------- the script with a pattern literal miswritten
\* The script as it is, and the script with one of the programming errors
\* match_tags raises for: a selector that can match more than once (in the
\* pattern of the item's main block), a second optional slot (in the
\* pattern of the links block, in the pattern of the item).
RuleSets ==
    { ScriptPatterns,
      [ScriptPatterns EXCEPT !.main[1].e = SelUnion],
      [ScriptPatterns EXCEPT !.links[3].opt = TRUE],
      [ScriptPatterns EXCEPT !.item = <<Slot("div", Some("div1"), TRUE),
                                        Slot("hr", None, TRUE)>>] }

InitRules ==
    /\ argc = 3
    /\ \E l \in {"plain", "dish"},
          items \in SeqsUpTo({MkItem(q) : q \in RepParams}, MaxItems) :
             tree = Page(l, items)
    /\ patterns \in RuleSets
    /\ InitScript
    /\ mt_node = TextNode
    /\ mt_pattern = <<>>
    /\ mt_result = NotCalled
    /\ FnIdle

SpecRules == InitRules /\ [][Next]_vars

\* ================================================================ claims
ValidFull(id) == id # None /\ isValid(TheVal(id)) /\ isFull(TheVal(id))

\* the lines a step added to the diagnostics
Printed == SubSeq(stderr', Len(stderr) + 1, Len(stderr'))

\* the step took the loop past one more item
ItemDone == index' = index + 1

\* the loop is about to take up an item
ItemPending == pc = "loop" /\ index < Len(ulistitems)

\* the strict extraction of the item the loop is about to take up
PendingStrict == StrictExtract(ulistitems[index + 1], patterns)

\* ------------------------------------------------------------------- C1
\* C1: a point is added to routepoints only for a place ID that is valid
\* and full-length, and its coordinates are those the place ID decodes to;
\* an item whose place ID is None, invalid or short adds no point; the file
\* written holds only points of routepoints.
C1_OnlyValidatedPoints ==
    [][ /\ routepoints' # routepoints =>
              /\ ValidFull(placeid')
              /\ Len(routepoints') = Len(routepoints) + 1
              /\ SubSeq(routepoints', 1, Len(routepoints)) = routepoints
              /\ routepoints'[Len(routepoints')].lat = latlng(TheVal(placeid')).lat
              /\ routepoints'[Len(routepoints')].lng = latlng(TheVal(placeid')).lng
        /\ (ItemDone /\ ~ValidFull(placeid')) => routepoints' = routepoints
        /\ gpxfile' # None =>
              \A i \in 1..Len(TheVal(gpxfile').waypoints) :
                 \E j \in 1..Len(routepoints) :
                    /\ TheVal(gpxfile').waypoints[i].latitude = routepoints[j].lat
                    /\ TheVal(gpxfile').waypoints[i].longitude = routepoints[j].lng
      ]_vars

\* a file was written for a page with a point and with a later item whose
\* place ID is there but is no full-length code
C1_Witness ==
    /\ exit = "status 0"
    /\ gpxfile # None
    /\ Len(routepoints) < index
    /\ placeid # None
    /\ ~ValidFull(placeid)

\* ------------------------------------------------------------------- C2
\* C2: whatever the strict extraction of an item does, the run is not
\* aborted in the loop: the script (given both its arguments) never ends
\* with items left over.
C2_LoopNeverAborts == (argc >= 3 /\ pc = "done") => index = Len(ulistitems)

\* ------------------------------------------------------------------- C3
\* C3: once the loop is through with at least one point (and the output
\* path was given), no failure of the description extraction is fatal: the
\* run ends with status 0 and the file holds all the points.
C3_DescriptionNeverFatal ==
    (pc = "done" /\ argc >= 3 /\ index = Len(ulistitems) /\ routepoints # <<>>) =>
        /\ exit = "status 0"
        /\ gpxfile # None
        /\ Len(TheVal(gpxfile).waypoints) = Len(routepoints)

\* ------------------------------------------------------------------- C4
\* the point of item n of the list, if its place ID validates
ItemPoint(n) ==
    LET strict == StrictExtract(ulistitems[n], patterns)
        id == IF strict.exc = "" THEN strict.placeid
              ELSE FallbackScan(ulistitems[n]).placeid
        name == IF strict.exc = "" THEN strict.ptname
                ELSE Some(DeliveryName(n - 1))
    IN  IF ValidFull(id)
        THEN << [name |-> name, lat |-> latlng(TheVal(id)).lat,
                 lng |-> latlng(TheVal(id)).lng] >>
        ELSE <<>>

RECURSIVE ExpectedPoints(_)
ExpectedPoints(n) ==
    IF n = 0 THEN <<>> ELSE ExpectedPoints(n - 1) \o ItemPoint(n)

\* C4: after the loop, routepoints holds one point for each item whose
\* place ID validated and none for the others, in the order of the items;
\* there are no more points than items; the file written holds the points
\* of routepoints one for one, in the same order.
C4_OnePointPerValidatedItem ==
    (pc \in {"desc", "write", "done"} /\ index = Len(ulistitems)) =>
        /\ routepoints = ExpectedPoints(Len(ulistitems))
        /\ Len(routepoints) <= Len(ulistitems)
        /\ gpxfile # None =>
              /\ Len(TheVal(gpxfile).waypoints) = Len(routepoints)
              /\ \A i \in 1..Len(routepoints) :
                    TheVal(gpxfile).waypoints[i] =
                        [latitude |-> routepoints[i].lat,
                         longitude |-> routepoints[i].lng,
                         name |-> routepoints[i].name]

\* a file was written with two different points
C4_Witness ==
    /\ exit = "status 0"
    /\ gpxfile # None
    /\ Len(TheVal(gpxfile).waypoints) >= 2
    /\ TheVal(gpxfile).waypoints[1] # TheVal(gpxfile).waypoints[2]

\* ------------------------------------------------------------------- C5
\* C5: started with fewer than two arguments after the program's name, the
\* script prints the usage and exits with status 2 before anything else.
C5_UsageWithoutTwoArguments ==
    (argc < 3 /\ pc # "args") =>
        /\ pc = "done"
        /\ exit = "status 2"
        /\ stderr = <<Diag("usage", 0)>>
        /\ ulistitems = <<>>

\* ------------------------------------------------------------------- C6
Optionals(pattern) == Len(pattern) - Len(SelectSeq(pattern, IsMandatory))

\* at most one optional slot, and no selector matches a child more than once
WellFormed(node, pattern) ==
    /\ Optionals(pattern) <= 1
    /\ \A i \in 1..Len(pattern), k \in 1..Len(node.kids) :
          XPathSelfCount(node.kids[k], pattern[i].e) <= 1

\* the slot list the counting rule chooses for n children
Chosen(pattern, n) ==
    IF Optionals(pattern) = 1 /\ Len(pattern) = n + 1
    THEN SelectSeq(pattern, IsMandatory) ELSE pattern

BoundNames(slots) ==
    { TheVal(slots[i].bind) : i \in {j \in 1..Len(slots) : slots[j].bind # None} }

\* C6: for a well-formed pattern match_tags returns None or a complete
\* mapping and never raises, whatever the number of children.
C6_NeverRaises ==
    (mt_result # NotCalled /\ WellFormed(mt_node, mt_pattern)) =>
        \/ mt_result.kind = "None"
        \/ /\ mt_result.kind = "dict"
           /\ DOMAIN mt_result.dict =
                 BoundNames(Chosen(mt_pattern, Len(mt_node.kids)))

\* ------------------------------------------------------------------- C7
\* C7: for a well-formed pattern and a parent without non-blank text,
\* match_tags returns a mapping iff there are as many children as slots in
\* the chosen slot list and each child matches the slot at its position.
C7_MatchIffAligned ==
    (/\ mt_result # NotCalled
     /\ WellFormed(mt_node, mt_pattern)
     /\ ~NonBlank(mt_node.text)) =>
        LET slots == Chosen(mt_pattern, Len(mt_node.kids))
        IN  mt_result.kind = "dict" <=>
               /\ Len(mt_node.kids) = Len(slots)
               /\ \A i \in 1..Len(slots) :
                     XPathSelfCount(mt_node.kids[i], slots[i].e) = 1

\* ------------------------------------------------------------------- C8
\* the step took an item whose cross-check failed
MismatchStep ==
    /\ ItemDone
    /\ Len(Printed) >= 2
    /\ Printed[1].msg = "mismatch"

\* C8 as claimed: after a failed cross-check the fallback runs and no point
\* of the item comes from the text code or from the code of the map URL.
C8_NeitherValueTrusted ==
    [][ (argc >= 3 /\ MismatchStep) =>
           /\ Printed[2] = Diag("falling back", index + 1)
           /\ ptname' = Some(DeliveryName(index))
           /\ routepoints' # routepoints =>
                 /\ placeid' # Printed[1].cited[1]
                 /\ placeid' # Printed[1].cited[2]
      ]_vars

\* C8 as amended: after a failed cross-check the fallback runs, the stop is
\* named "Delivery no N", and the place ID is that of the only Google Maps
\* link under the item (None when there is not exactly one), which may be
\* the code of the map URL of the cross-check; a point of the item has the
\* coordinates of that place ID, never those of the text code as such.
C8_FallbackLinkDecides ==
    [][ MismatchStep =>
           LET links == GoogleMapsLinks(ulistitems[index + 1])
           IN  /\ Printed[2] = Diag("falling back", index + 1)
               /\ ptname' = Some(DeliveryName(index))
               /\ placeid' = IF Len(links) = 1
                             THEN place_id_from_google_maps_url(
                                      TheVal(links[1].href))
                             ELSE None
               /\ routepoints' # routepoints =>
                     routepoints' = Append(routepoints,
                         [name |-> Some(DeliveryName(index)),
                          lat |-> latlng(TheVal(placeid')).lat,
                          lng |-> latlng(TheVal(placeid')).lng])
      ]_vars

\* the first item failed the cross-check and its point was made from the
\* code of the map URL
C8_Witness ==
    /\ index = 1
    /\ Len(routepoints) = 1
    /\ Len(stderr) = 2
    /\ stderr[1].msg = "mismatch"
    /\ placeid = stderr[1].cited[2]
    /\ placeid # stderr[1].cited[1]

\* ------------------------------------------------------------------- C9
\* match_tags raises ValueError for the pattern while the item is extracted
PatternErrorPending ==
    /\ ItemPending
    /\ PendingStrict.why = "pattern"
    /\ PendingStrict.exc = "ValueError"

InvalidPending == ItemPending /\ PendingStrict.why = "invalid"

\* the strict extraction runs to its end with a code that is not full
ShortPending ==
    /\ ItemPending
    /\ PendingStrict.exc = ""
    /\ ~isFull(TheVal(PendingStrict.placeid))

FellBackAt(n) ==
    /\ Len(Printed) >= 2
    /\ Printed[2] = Diag("falling back", n)
    /\ ptname' = Some(DeliveryName(n - 1))

NamesIn == split(fn_fullname)
PartsOut == split(TheVal(fn_result.value))

\* C11: firstnameish returns a full name of a single word unchanged; for a
\* full name of two or more names it returns one or two parts separated by
\* single spaces, taken in order from the start of the name: the first name
\* alone when it is not shaped like an initial; the first two names verbatim
\* when the first is shaped like an initial and there is a third name; the
\* first name followed by the first character of the last name and a period
\* when the first is shaped like an initial and the second name is the last.
C11_FirstnameishShape ==
    fn_result.kind = "return" =>
        /\ Len(NamesIn) = 1 =>
              /\ fn_result.value = Some(<<NamesIn[1]>>)
              /\ Len(fn_fullname) = 1 => fn_result.value = Some(fn_fullname)
        /\ Len(NamesIn) >= 2 =>
              /\ fn_result.value # None
              /\ Len(PartsOut) \in 1..2
              /\ TheVal(fn_result.value) = join(PartsOut)
              /\ PartsOut =
                    IF ~LooksLikeInitial(NamesIn[1]) THEN <<NamesIn[1]>>
                    ELSE IF Len(NamesIn) >= 3 THEN <<NamesIn[1], NamesIn[2]>>
                    ELSE <<NamesIn[1],
                           FirstChar(NamesIn[Len(NamesIn)]) \o ".">>

\* firstnameish has returned the first two names of a full name of three
\* names that starts with two initials
C11_Witness ==
    /\ fn_result.kind = "return"
    /\ NamesIn = <<"A", "F.", "Smith">>
    /\ fn_result.value = Some(<<"A", WS, "F.">>)


\* ---------------------------------------------------------------- C12
\* C12: every point added to routepoints (the script given both its
\* arguments) carries a name that is a non-empty string: the display name
\* derived from the item's full name when the strict extraction succeeded,
\* 'Delivery no N' with N the item's position otherwise; also for an item
\* whose full-name element holds no text or only whitespace.
C12_EveryWaypointNamed ==
    [][ (argc >= 3 /\ routepoints' # routepoints) =>
            LET point == routepoints'[Len(routepoints')]
            IN  /\ Truthy(point.name)
                /\ point.name = IF PendingStrict.exc = ""
                                THEN PendingStrict.ptname
                                ELSE Some(DeliveryName(index))
      ]_vars

====
